---- MODULE Spec2Model ----
(***************************************************************************)
(* Model of ml_service/main.py: a FastAPI application with one embedding   *)
(* endpoint (POST /embed) and one liveness probe (GET /health), served by  *)
(* a single uvicorn process, i.e. by ONE asyncio event loop.               *)
(*                                                                         *)
(* The handlers are `async def` coroutines without any `await`, so each    *)
(* handler runs on the event-loop thread from its first line to its        *)
(* response.  The only place where time passes inside a handler is the     *)
(* synchronous library call model.encode(req.text); the handler is split   *)
(* there (call / return / except) and `running` records that the           *)
(* event-loop thread is inside that call.                                  *)
(*                                                                         *)
(* Floats are abstracted to integers (0.0 is 0); a text is the sequence of *)
(* its code points.                                                        *)
(***************************************************************************)
EXTENDS Integers, Sequences, FiniteSets, TLC

(* ------------------------------ bounds -------------------------------- *)
\* number of requests the clients send in one behaviour
MaxReq == 3

(* ------------------------- program constants -------------------------- *)
\* main.py:22  the literal in  [0.0] * 384
ZeroVectorLen == 384
\* main.py:10  "# 384 dimensions": output dimension of the configured model
ModelDimension == 384

\* main.py:11
ModelNameLiteral == "paraphrase-multilingual-MiniLM-L12-v2"

Ids == 1..MaxReq

(* ------------------------------ inputs -------------------------------- *)
\* texts: "" , " " (whitespace only) , "hi"
Texts == { <<>>, <<32>>, <<104, 105>> }

\* JSON values that may sit in the "text" field of a request body
JStr(t) == [t |-> "str", v |-> t]
JNum(n) == [t |-> "num", v |-> <<n>>]
\* a request body is the sequence of values bound to its "text" key:
\* <<>> is the body {} (field missing), <<x>> is {"text": x}
Bodies == { <<>> , <<JNum(7)>> } \cup { <<JStr(t)>> : t \in Texts }

\* failures the library can raise: [type, msg]; str(e) is the message
EncodeFaults == { [type |-> "RuntimeError", msg |-> "out of memory"] }
ToListFaults == { [type |-> "ValueError", msg |-> "bad array"] }

\* variant: the detail carries the exception's class name, not its message
str_type(e) == e.type

\* str(e)   (main.py:29)
str(e) == e.msg

(* ------------------------------- state -------------------------------- *)
VARIABLES
    phase,       \* "import" | "loaded" | "serving"
    MODEL_NAME,  \* module global, main.py:11
    model,       \* module global, main.py:13
    loads,       \* how many times SentenceTransformer(...) was constructed
    reqs,        \* per request: kind, body, st, resps (responses sent),
                 \* encodeCalls, entered (handler body entered), fault (the
                 \* exception the library raised, if any)
    running,     \* id of the request whose handler occupies the event loop, 0 if free
    log          \* ids in the order their responses were sent

vars == <<phase, MODEL_NAME, model, loads, reqs, running, log>>

NoModel == [name |-> "", dim |-> 0]

\* variant: a checkpoint with a different output width is loaded while the
\* literal 384 of the handler stays
SentenceTransformer_wide(name) == [name |-> name, dim |-> 2 * 384]

\* SentenceTransformer(MODEL_NAME)   (main.py:13)
SentenceTransformer(name) ==
    [name |-> name,
     dim  |-> IF name = ModelNameLiteral THEN ModelDimension ELSE 0]

\* variant: inference that depends on what was served before (a model left
\* in a mode where earlier calls change later results)
encode_stateful(m, text) ==
    [shape |-> m.dim,
     data  |-> [k \in 0..(m.dim - 1) |->
                  (((text[1] + Len(text) + Len(log)) * (k + 1)) % 5) - 2]]

\* model.encode(text): a numpy array of shape (dim,), 0-indexed, whose
\* entries are determined by the (immutable) model and the text alone
encode(m, text) ==
    [shape |-> m.dim,
     data  |-> [k \in 0..(m.dim - 1) |->
                  (((IF Len(text) = 0 THEN 0 ELSE text[1] + Len(text)) * (k + 1)) % 5) - 2]]

\* ndarray.tolist(): the plain, 1-indexed list of the entries
tolist(a) == [i \in 1..a.shape |-> a.data[i - 1]]

\* [0.0] * n
Zeros(n) == [i \in 1..n |-> 0]

\* variant: any value present in the field is accepted (coerced to str)
EmbeddingRequest_coerce(body) == Len(body) = 1

\* pydantic validation of the body against  class EmbeddingRequest: text: str
EmbeddingRequest(body) == Len(body) = 1 /\ body[1].t = "str"

\* variant: `if not req.text.strip()`: whitespace-only text counts as empty
NotText_strip(text) == \A i \in 1..Len(text) : text[i] = 32

\* bool(req.text) is False exactly for the empty string  (`not req.text`)
NotText(text) == Len(text) = 0

IdleReq == [kind |-> "none", body |-> <<>>, st |-> "idle", resps |-> <<>>,
            encodeCalls |-> 0, entered |-> FALSE, fault |-> <<>>]

Init ==
    /\ phase = "import"
    /\ MODEL_NAME = ""
    /\ model = NoModel
    /\ loads = 0
    /\ reqs = [i \in Ids |-> IdleReq]
    /\ running = 0
    /\ log = <<>>

(* ------------------------------ startup ------------------------------- *)
\* main.py:11-14  module import: bind MODEL_NAME, construct the model
ImportModule ==
    /\ phase = "import"
    /\ MODEL_NAME' = ModelNameLiteral
    /\ model' = SentenceTransformer(ModelNameLiteral)
    /\ loads' = loads + 1
    /\ phase' = "loaded"
    /\ UNCHANGED <<reqs, running, log>>

\* main.py:35-37  uvicorn.run(app, ...): start the single event loop
RunServer ==
    /\ phase = "loaded"
    /\ phase' = "serving"
    /\ UNCHANGED <<MODEL_NAME, model, loads, reqs, running, log>>

(* ------------------------------ clients ------------------------------- *)
\* requests are numbered in arrival order
NextId == IF \E i \in Ids : reqs[i].st = "idle"
          THEN CHOOSE i \in Ids : reqs[i].st = "idle"
                                  /\ \A j \in Ids : j < i => reqs[j].st # "idle"
          ELSE 0

\* a client sends POST /embed with some body; the request waits in the
\* socket until the event loop picks it up
ArriveEmbed(body) ==
    /\ phase = "serving"
    /\ NextId # 0
    /\ reqs' = [reqs EXCEPT ![NextId] =
                  [@ EXCEPT !.kind = "embed", !.body = body, !.st = "pending"]]
    /\ UNCHANGED <<phase, MODEL_NAME, model, loads, running, log>>

\* a client sends GET /health
ArriveHealth ==
    /\ phase = "serving"
    /\ NextId # 0
    /\ reqs' = [reqs EXCEPT ![NextId] =
                  [@ EXCEPT !.kind = "health", !.st = "pending"]]
    /\ UNCHANGED <<phase, MODEL_NAME, model, loads, running, log>>

(* ------------------------------ handlers ------------------------------ *)
\* the response is written and the request is finished
Respond(r, resp) == [r EXCEPT !.st = "done", !.resps = Append(@, resp)]

\* the event loop can start a handler only when its thread is not inside one
LoopFree == running = 0

\* asyncio runs ready callbacks first-in first-out: the handler started
\* next is the one of the request that has waited longest
IsNext(id) ==
    /\ reqs[id].st = "pending"
    /\ \A j \in Ids : j < id => reqs[j].st # "pending"

\* request validation fails: 422, the handler is not entered
RejectInvalid(id) ==
    /\ LoopFree /\ IsNext(id)
    /\ reqs[id].kind = "embed"
    /\ ~EmbeddingRequest(reqs[id].body)
    /\ reqs' = [reqs EXCEPT ![id] =
                  Respond(@, [code |-> 422, body |-> [detail |-> "validation error"]])]
    /\ log' = Append(log, id)
    /\ UNCHANGED <<phase, MODEL_NAME, model, loads, running>>

\* main.py:20-22  empty text: the zero vector, no inference
create_embedding_empty(id) ==
    /\ LoopFree /\ IsNext(id)
    /\ reqs[id].kind = "embed"
    /\ EmbeddingRequest(reqs[id].body)
    /\ NotText(reqs[id].body[1].v)
    /\ reqs' = [reqs EXCEPT ![id] =
                  Respond([@ EXCEPT !.entered = TRUE],
                          [code |-> 200, body |-> [vector |-> Zeros(ZeroVectorLen)]])]
    /\ log' = Append(log, id)
    /\ UNCHANGED <<phase, MODEL_NAME, model, loads, running>>

\* main.py:20-26  non-empty text: enter the try block and call model.encode;
\* the event-loop thread is now inside the library
create_embedding_call(id) ==
    /\ LoopFree /\ IsNext(id)
    /\ reqs[id].kind = "embed"
    /\ EmbeddingRequest(reqs[id].body)
    /\ ~NotText(reqs[id].body[1].v)
    /\ reqs' = [reqs EXCEPT ![id] =
                  [@ EXCEPT !.entered = TRUE, !.st = "encoding",
                            !.encodeCalls = @ + 1]]
    /\ running' = id
    /\ UNCHANGED <<phase, MODEL_NAME, model, loads, log>>

\* main.py:26-27  encode returns, tolist succeeds: 200 with the vector
create_embedding_return(id) ==
    /\ running = id /\ reqs[id].st = "encoding"
    /\ \E embedding \in {encode(model, reqs[id].body[1].v)} :
          reqs' = [reqs EXCEPT ![id] =
                     Respond(@, [code |-> 200,
                                 body |-> [vector |-> tolist(embedding)]])]
    /\ running' = 0
    /\ log' = Append(log, id)
    /\ UNCHANGED <<phase, MODEL_NAME, model, loads>>

\* variant: the except branch reloads the model before answering
create_embedding_except_reload(id, e) ==
    /\ running = id /\ reqs[id].st = "encoding"
    /\ reqs' = [reqs EXCEPT ![id] =
                  Respond([@ EXCEPT !.fault = <<e>>],
                          [code |-> 500, body |-> [detail |-> str(e)]])]
    /\ model' = SentenceTransformer(MODEL_NAME)
    /\ loads' = loads + 1
    /\ running' = 0
    /\ log' = Append(log, id)
    /\ UNCHANGED <<phase, MODEL_NAME>>

\* variant: the failure is not caught and takes the event loop down with it
create_embedding_except_crash(id, e) ==
    /\ running = id /\ reqs[id].st = "encoding"
    /\ reqs' = [reqs EXCEPT ![id] =
                  Respond([@ EXCEPT !.fault = <<e>>],
                          [code |-> 500, body |-> [detail |-> str(e)]])]
    /\ phase' = "down"
    /\ log' = Append(log, id)
    /\ UNCHANGED <<MODEL_NAME, model, loads, running>>

\* variant: the failure is swallowed and the zero vector is returned
create_embedding_except_swallow(id, e) ==
    /\ running = id /\ reqs[id].st = "encoding"
    /\ reqs' = [reqs EXCEPT ![id] =
                  Respond([@ EXCEPT !.fault = <<e>>],
                          [code |-> 200, body |-> [vector |-> Zeros(ZeroVectorLen)]])]
    /\ running' = 0
    /\ log' = Append(log, id)
    /\ UNCHANGED <<phase, MODEL_NAME, model, loads>>

\* main.py:26-29  encode or tolist raises e: HTTPException(500, str(e))
create_embedding_except(id, e) ==
    /\ running = id /\ reqs[id].st = "encoding"
    /\ reqs' = [reqs EXCEPT ![id] =
                  Respond([@ EXCEPT !.fault = <<e>>],
                          [code |-> 500, body |-> [detail |-> str(e)]])]
    /\ running' = 0
    /\ log' = Append(log, id)
    /\ UNCHANGED <<phase, MODEL_NAME, model, loads>>

\* variant: the probe reports on earlier failures
health_degraded(id) ==
    /\ LoopFree /\ IsNext(id)
    /\ reqs[id].kind = "health"
    /\ reqs' = [reqs EXCEPT ![id] =
                  Respond([@ EXCEPT !.entered = TRUE],
                          [code |-> 200,
                           body |-> [status |-> IF \E f \in Ids : reqs[f].fault # <<>>
                                                THEN "degraded" ELSE "ok",
                                     model  |-> MODEL_NAME]])]
    /\ log' = Append(log, id)
    /\ UNCHANGED <<phase, MODEL_NAME, model, loads, running>>

\* main.py:31-33
health(id) ==
    /\ LoopFree /\ IsNext(id)
    /\ reqs[id].kind = "health"
    /\ reqs' = [reqs EXCEPT ![id] =
                  Respond([@ EXCEPT !.entered = TRUE],
                          [code |-> 200,
                           body |-> [status |-> "ok", model |-> MODEL_NAME]])]
    /\ log' = Append(log, id)
    /\ UNCHANGED <<phase, MODEL_NAME, model, loads, running>>

\* the event loop starts handling a pending request
Dispatch(id) ==
    \/ RejectInvalid(id)
    \/ create_embedding_empty(id)
    \/ create_embedding_call(id)
    \/ health(id)

\* the library call of the running handler finishes
Finish(id) ==
    \/ create_embedding_return(id)
    \/ \E e \in EncodeFaults \cup ToListFaults : create_embedding_except(id, e)

Next ==
    \/ ImportModule
    \/ RunServer
    \/ \E b \in Bodies : ArriveEmbed(b)
    \/ ArriveHealth
    \/ \E id \in Ids : RejectInvalid(id)
    \/ \E id \in Ids : create_embedding_empty(id)
    \/ \E id \in Ids : create_embedding_call(id)
    \/ \E id \in Ids : create_embedding_return(id)
    \/ \E id \in Ids : \E e \in EncodeFaults \cup ToListFaults :
                          create_embedding_except(id, e)
    \/ \E id \in Ids : health(id)

Spec == Init /\ [][Next]_vars

\* the event loop keeps dispatching waiting requests, and a library call
\* that was entered returns or raises
FairSpec ==
    /\ Spec
    /\ WF_vars(\E id \in Ids : Dispatch(id) \/ Finish(id))

(* ====================== properties of the service ====================== *)
\* helpers for the properties; they read the state only and repeat no
\* definition of the handlers
EmbedIds   == { id \in Ids : reqs[id].kind = "embed" }
HealthIds  == { id \in Ids : reqs[id].kind = "health" }
IsDone(id) == reqs[id].st = "done"
Resp(id)   == reqs[id].resps[1]
HasStringText(id) ==
    /\ reqs[id].kind = "embed"
    /\ Len(reqs[id].body) = 1
    /\ reqs[id].body[1].t = "str"
Malformed(id) == reqs[id].kind = "embed" /\ ~HasStringText(id)
TextOf(id)    == reqs[id].body[1].v
EmptyText(id)    == HasStringText(id) /\ TextOf(id) = <<>>
NonEmptyText(id) == HasStringText(id) /\ TextOf(id) # <<>>
Success(id) == IsDone(id) /\ Resp(id).code = 200
Failed500(id) == IsDone(id) /\ Resp(id).code = 500
Rejected(id)  == IsDone(id) /\ Resp(id).code \in 400..499
HasVector(id) == "vector" \in DOMAIN Resp(id).body
AllZero(v) == \A i \in 1..Len(v) : v[i] = 0
\* position of a finished request in the order of responses
Pos(id) == CHOOSE k \in 1..Len(log) : log[k] = id

(* ------------------------------- C1 ----------------------------------- *)
\* C1: every successful response of POST /embed carries a vector whose
\* length is the loaded model's dimension, 384, for the empty text and for
\* every non-empty text alike.
C1_VectorHasModelDimension ==
    \A id \in EmbedIds :
        Success(id) =>
            /\ HasVector(id)
            /\ Len(Resp(id).body.vector) = model.dim
            /\ Len(Resp(id).body.vector) = 384

\* an empty-text request and a non-empty-text request both succeeded
C1_Witness ==
    /\ \E id \in EmbedIds : EmptyText(id) /\ Success(id)
    /\ \E id \in EmbedIds : NonEmptyText(id) /\ Success(id)

(* ------------------------------- C2 ----------------------------------- *)
\* C2: for the empty text the response is a success whose vector is 384
\* zeros and encode is not invoked; for every non-empty text (whitespace-
\* only included) encode is invoked and the zero-vector shortcut is not
\* taken (the handler is inside encode, or has answered from its result).
C2_EmptyTextShortcutOnly ==
    \A id \in EmbedIds :
        /\ (EmptyText(id) /\ reqs[id].st # "pending") =>
              /\ Success(id)
              /\ HasVector(id)
              /\ Len(Resp(id).body.vector) = 384
              /\ AllZero(Resp(id).body.vector)
              /\ reqs[id].encodeCalls = 0
        /\ (NonEmptyText(id) /\ reqs[id].st # "pending") =>
              /\ reqs[id].encodeCalls = 1
              /\ Success(id) => ~AllZero(Resp(id).body.vector)

\* the empty text, the whitespace-only text and an ordinary text were all
\* answered with success
C2_Witness ==
    /\ \E id \in EmbedIds : EmptyText(id) /\ Success(id)
    /\ \E id \in EmbedIds : HasStringText(id) /\ TextOf(id) = <<32>> /\ Success(id)
    /\ \E id \in EmbedIds : HasStringText(id) /\ TextOf(id) = <<104, 105>> /\ Success(id)

(* ------------------------------- C3 ----------------------------------- *)
\* C3: if encode or tolist raises for a non-empty text, the request ends
\* with HTTP 500 whose detail is the failure's message, carries no vector,
\* and encode was invoked exactly once.
C3_FailureIs500WithMessage ==
    \A id \in EmbedIds :
        reqs[id].fault # <<>> =>
            /\ NonEmptyText(id)
            /\ IsDone(id)
            /\ Len(reqs[id].resps) = 1
            /\ Resp(id).code = 500
            /\ ~HasVector(id)
            /\ Resp(id).body = [detail |-> reqs[id].fault[1].msg]
            /\ reqs[id].encodeCalls = 1

\* one request failed inside encode and another inside tolist
C3_Witness ==
    /\ \E id \in EmbedIds : reqs[id].fault # <<>> /\ reqs[id].fault[1] \in EncodeFaults
    /\ \E id \in EmbedIds : reqs[id].fault # <<>> /\ reqs[id].fault[1] \in ToListFaults

(* ------------------------------- C4 ----------------------------------- *)
\* C4: a request whose text field is missing or is not a string is
\* rejected with a client error, never 500; the handler body is not entered
\* and encode is not invoked.
C4_MalformedRejected ==
    \A id \in Ids :
        Malformed(id) =>
            /\ ~reqs[id].entered
            /\ reqs[id].encodeCalls = 0
            /\ reqs[id].st \in {"pending", "done"}
            /\ IsDone(id) =>
                  /\ Len(reqs[id].resps) = 1
                  /\ Resp(id).code \in 400..499
                  /\ ~HasVector(id)

\* a body without the field and a body with a number were both rejected
C4_Witness ==
    /\ \E id \in Ids : Malformed(id) /\ reqs[id].body = <<>> /\ Rejected(id)
    /\ \E id \in Ids : Malformed(id) /\ reqs[id].body # <<>> /\ Rejected(id)

(* ------------------------------- C5 ----------------------------------- *)
\* C5: after any sequence of /embed requests, GET /health returns status
\* "ok" and the model name "paraphrase-multilingual-MiniLM-L12-v2".
C5_HealthFixed ==
    \A id \in HealthIds :
        IsDone(id) =>
            /\ Len(reqs[id].resps) = 1
            /\ Resp(id).code = 200
            /\ Resp(id).body = [status |-> "ok",
                                model  |-> "paraphrase-multilingual-MiniLM-L12-v2"]

\* a health probe answered after a 500 and after a validation rejection
C5_Witness ==
    \E h \in HealthIds :
        /\ IsDone(h)
        /\ \E f \in EmbedIds : Failed500(f) /\ Pos(f) < Pos(h)
        /\ \E r \in EmbedIds : Rejected(r) /\ Resp(r).code # 500 /\ Pos(r) < Pos(h)

Quick(id) ==
    /\ reqs[id].st = "pending"
    /\ \/ reqs[id].kind = "health"
       \/ EmptyText(id)

\* C7: while one request is inside encode, another waiting request (a
\* health probe, or an embed with empty text) can still be handled.
C7_SlowCallBlocksOnlyItsRequest ==
    \A i, j \in Ids :
        (reqs[i].st = "encoding" /\ Quick(j) /\ IsNext(j)) => ENABLED Dispatch(j)

(* ------------------------------- C8 ----------------------------------- *)
\* C8: the model is loaded exactly once, before any request is served, and
\* no handler step writes the model or the model name afterwards.
C8_ModelLoadedOnceNeverWritten ==
    /\ [](/\ loads <= 1
          /\ (\E id \in Ids : reqs[id].st # "idle") =>
                 /\ loads = 1
                 /\ model.name = "paraphrase-multilingual-MiniLM-L12-v2"
                 /\ MODEL_NAME = "paraphrase-multilingual-MiniLM-L12-v2")
    /\ [][loads >= 1 =>
            /\ model' = model
            /\ MODEL_NAME' = MODEL_NAME
            /\ loads' = loads]_vars

\* a failing embed, a successful embed and a health probe have all been
\* served, and the model was still loaded once
C8_Witness ==
    /\ loads = 1
    /\ \E f \in EmbedIds : Failed500(f)
    /\ \E s \in EmbedIds : Success(s)
    /\ \E h \in HealthIds : IsDone(h)

(* ------------------------------- C9 ----------------------------------- *)
\* some request has already failed (500 or validation rejection)
SomeFailed == \E f \in Ids : IsDone(f) /\ Resp(f).code >= 400

\* i was answered before any failure, j after one
BeforeAndAfterFailure(i, j) ==
    /\ IsDone(i) /\ IsDone(j)
    /\ \A f \in Ids : (IsDone(f) /\ Resp(f).code >= 400) => Pos(i) < Pos(f)
    /\ \E f \in Ids : IsDone(f) /\ Resp(f).code >= 400 /\ Pos(f) < Pos(j)

\* C9: a failed request does not stop the service: the process keeps
\* serving, a request waiting after a failure is answered, and its answer
\* is the one the same request got before any failure happened.
C9_FailureDoesNotStopService ==
    /\ [][phase = "serving" => phase' = "serving"]_vars
    /\ [](\A i, j \in Ids :
            (/\ BeforeAndAfterFailure(i, j)
             /\ reqs[i].kind = reqs[j].kind
             /\ reqs[i].body = reqs[j].body
             /\ Resp(i).code = 200 /\ Resp(j).code = 200) =>
                Resp(i) = Resp(j))
    /\ \A id \in Ids :
          (reqs[id].st = "pending" /\ SomeFailed) ~> IsDone(id)

\* the same embed request succeeded before and after a failure
C9_Witness ==
    \E i, j \in EmbedIds :
        /\ i # j
        /\ NonEmptyText(i)
        /\ reqs[i].body = reqs[j].body
        /\ BeforeAndAfterFailure(i, j)
        /\ Success(i) /\ Success(j)

(* ------------------------------- C10 ---------------------------------- *)
\* the three shapes a response to POST /embed can have
IsSuccessResp(r) == r.code = 200 /\ DOMAIN r.body = {"vector"}
Is500Resp(r)     == r.code = 500 /\ DOMAIN r.body = {"detail"}
IsRejectResp(r)  == r.code \in 400..499 /\ DOMAIN r.body = {"detail"}

\* C10: every handled POST /embed ends in exactly one of three outcomes
\* (success with a vector, 500 with a detail, validation rejection); a
\* well-formed request is eventually answered once its encode call returns
\* or raises: with success if it returned, with 500 if it raised.
C10_ExactlyOneOutcome ==
    /\ [](\A id \in EmbedIds :
            /\ Len(reqs[id].resps) <= 1
            /\ IsDone(id) <=> Len(reqs[id].resps) = 1
            /\ IsDone(id) =>
                 /\ \/ IsSuccessResp(Resp(id))
                    \/ Is500Resp(Resp(id))
                    \/ IsRejectResp(Resp(id))
                 /\ HasStringText(id) =>
                      /\ reqs[id].fault = <<>> => IsSuccessResp(Resp(id))
                      /\ reqs[id].fault # <<>> => Is500Resp(Resp(id)))
    /\ \A id \in Ids :
          (reqs[id].st \in {"pending", "encoding"} /\ HasStringText(id))
              ~> (IsDone(id) /\ Len(reqs[id].resps) = 1)

\* the three outcomes all occurred
C10_Witness ==
    /\ \E id \in EmbedIds : IsDone(id) /\ IsSuccessResp(Resp(id))
    /\ \E id \in EmbedIds : IsDone(id) /\ Is500Resp(Resp(id))
    /\ \E id \in EmbedIds : IsDone(id) /\ IsRejectResp(Resp(id))

====
